---- MODULE Spec2Model ----
(***************************************************************************)
(* State-machine model of the sharp-viewer backend:                        *)
(*   - convert_ply_to_splat   (src/backend/ply_to_splat.py)                *)
(*   - calculate_splat_volume (src/backend/main.py)                        *)
(*   - analyze_growth         (src/backend/main.py)                        *)
(*                                                                         *)
(* Numbers.  Every real number is kept in thousandths (0.5 is 500, 0.8 is  *)
(* 800, 0.01 is 10, 1.0 is 1000); NaN is a distinguished value.  This      *)
(* holds for the float32 values of a scene file, for the decoded colour,   *)
(* opacity and scale, and for the opacities and thresholds of the volume   *)
(* pipeline.  Volumes are whole numbers.                                   *)
(***************************************************************************)
EXTENDS Integers, Sequences, FiniteSets, TLC

VARIABLES
    task,           \* which entry point runs in this behaviour: "convert" or "growth"
    \* ---- convert_ply_to_splat ----
    pc,             \* position inside convert_ply_to_splat
    header,         \* lines accumulated by the header read loop (sequence of lines)
    atEOF,          \* the input stream has no more bytes
    eofReads,       \* number of readline() calls that returned b'' so far
    vertex_count,   \* parsed record count
    payload,        \* bytes after the header: [len |-> bytes, nan |-> index of a NaN float or -1]
    shape,          \* vertex_data.shape as <<rows, cols>>
    colors,         \* decoded per-row colour triples (thousandths)
    opacity,        \* decoded per-row opacity (thousandths)
    scale,          \* decoded per-row scale triples (thousandths)
    rot,            \* decoded per-row rotation: [q |-> raw 4-tuple, s |-> squared norm]
    i,              \* index of the next row to write
    out,            \* the output path on disk: [exists, len, old]
    outBefore,      \* the output path on disk before the call
    err,            \* the exception that ended the call, "none" while running
    \* ---- analyze_growth / calculate_splat_volume ----
    apc,            \* position inside analyze_growth / calculate_splat_volume
    HAS_VOLUME_DEPS,\* the optional imports succeeded
    request,        \* the request payload: [file1, file2, threshold], -1 for no threshold key
    threshold,      \* threshold local of analyze_growth
    call,           \* which calculate_splat_volume call is running (1 or 2)
    ply_path,       \* ply_path argument of the running call
    opacity_threshold, \* opacity_threshold argument of the running call
    plydata,        \* vertex element read from the file: [n, field, raw]
    vopacity,       \* the opacity array compared against the threshold
    solid_points,   \* rows of xyz kept by the density filter (row numbers, in order)
    clean_points,   \* rows of xyz kept by outlier removal
    vols,           \* values returned by the calls made so far
    log,            \* history: one record per finished call (arguments, counts, exit,
                    \* whether ConvexHull was constructed, returned value)
    growth,         \* growth_percentage as an exact fraction [num, den]
    aerr            \* the exception that ended analyze_growth, "none" while running

convVars == <<pc, header, atEOF, eofReads, vertex_count, payload, shape,
              colors, opacity, scale, rot, i, out, outBefore, err>>
volVars == <<apc, HAS_VOLUME_DEPS, request, threshold, call, ply_path, opacity_threshold,
             plydata, vopacity, solid_points, clean_points, vols, log,
             growth, aerr>>
vars == <<task, pc, header, atEOF, eofReads, vertex_count, payload, shape,
          colors, opacity, scale, rot, i, out, outBefore, err,
          apc, HAS_VOLUME_DEPS, request, threshold, call, ply_path, opacity_threshold,
          plydata, vopacity, solid_points, clean_points, vols, log,
          growth, aerr>>

----------------------------------------------------------------------------
(* Bounds of the model *)

MaxHeaderLines == 3
MaxPayBytes == 252
MaxEofReads == 2
MaxPoints == 4
MaxVolume == 3

(* Program constants *)

StdFloats == 62
FloatSize == 4
SplatBytes == 32
MinHullPoints == 4
DefaultThreshold == 500

NaN == -999999

Min(a, b) == IF a < b THEN a ELSE b
Max(a, b) == IF a > b THEN a ELSE b

\* Python's // on integers: floor of the quotient, for either sign of the divisor
FloorDiv(a, b) ==
    IF b > 0 THEN a \div b
    ELSE -((a + (-b) - 1) \div (-b))

----------------------------------------------------------------------------
(* Header text: a line is a sequence of whitespace-separated tokens, a     *)
(* token a sequence of characters.                                         *)

ElementTok == <<"e", "l", "e", "m", "e", "n", "t">>
VertexTok == <<"v", "e", "r", "t", "e", "x">>
EndHeaderTok == <<"e", "n", "d", "_", "h", "e", "a", "d", "e", "r">>
PlyTok == <<"p", "l", "y">>

\* last tokens of the record-count lines tried: 0, 1, 2, -1 and a bare sign
CountTokens == {<<"0">>, <<"1">>, <<"2">>, <<"-", "1">>, <<"-">>}

Lines ==
    {<<PlyTok>>, <<EndHeaderTok>>, <<ElementTok, VertexTok>>}
    \cup {<<ElementTok, VertexTok, t>> : t \in CountTokens}

\* b'end_header' in line
HasEndHeader(line) == \E k \in 1..Len(line) : line[k] = EndHeaderTok

\* line.startswith('element vertex')
StartsWithElementVertex(line) ==
    /\ Len(line) >= 2
    /\ line[1] = ElementTok
    /\ Len(line[2]) >= Len(VertexTok)
    /\ SubSeq(line[2], 1, Len(VertexTok)) = VertexTok

Digit(c) == IF c = "0" THEN 0 ELSE IF c = "1" THEN 1 ELSE 2
IsDigit(c) == c \in {"0", "1", "2"}

RECURSIVE DigitsValue(_, _)
DigitsValue(tok, acc) ==
    IF tok = <<>> THEN acc
    ELSE DigitsValue(Tail(tok), 10 * acc + Digit(Head(tok)))

\* int(token): an optional sign followed by at least one decimal digit
ParseInt(tok) ==
    LET body == IF tok # <<>> /\ Head(tok) = "-" THEN Tail(tok) ELSE tok
        neg == tok # <<>> /\ Head(tok) = "-"
    IN IF body # <<>> /\ \A k \in 1..Len(body) : IsDigit(body[k])
       THEN [ok |-> TRUE,
             val |-> IF neg THEN -DigitsValue(body, 0) ELSE DigitsValue(body, 0)]
       ELSE [ok |-> FALSE, val |-> 0]

\* variant: the scan loop without its break, so the last matching line decides
RECURSIVE ScanVertexCount_NoBreak(_)
ScanVertexCount_NoBreak(lines) ==
    IF lines = <<>> THEN [ok |-> TRUE, val |-> 0]
    ELSE LET rest == ScanVertexCount_NoBreak(Tail(lines))
         IN IF \E k \in 1..Len(Tail(lines)) : StartsWithElementVertex(Tail(lines)[k])
            THEN rest
            ELSE IF StartsWithElementVertex(Head(lines))
            THEN ParseInt(Head(lines)[Len(Head(lines))])
            ELSE rest

\* the scan loop of the header: first matching line decides, then break
RECURSIVE ScanVertexCount(_)
ScanVertexCount(lines) ==
    IF lines = <<>> THEN [ok |-> TRUE, val |-> 0]
    ELSE IF StartsWithElementVertex(Head(lines))
         THEN ParseInt(Head(lines)[Len(Head(lines))])
         ELSE ScanVertexCount(Tail(lines))

----------------------------------------------------------------------------
(* Payload and numeric decoding *)

NanSites == {-1, 16, 54, 61}

\* the float32 at flat index k of the payload
Val(k) == IF k = payload.nan THEN NaN ELSE ((k % 5) - 2) * 1000

\* np.frombuffer(buf, float32).reshape(r, c) on a buffer of nbytes bytes:
\* the resulting shape, or <<>> when numpy raises ValueError
Reshape(nbytes, r, c) ==
    IF nbytes % FloatSize # 0 THEN <<>>
    ELSE LET n == nbytes \div FloatSize
         IN IF r >= 0 /\ c >= 0
            THEN (IF r * c = n THEN <<r, c>> ELSE <<>>)
            ELSE IF r = -1 /\ c > 0
            THEN (IF n % c = 0 THEN <<n \div c, c>> ELSE <<>>)
            ELSE IF c = -1 /\ r > 0
            THEN (IF n % r = 0 THEN <<r, n \div r>> ELSE <<>>)
            ELSE <<>>

\* f.read(n) with len bytes left: the number of bytes returned, -1 for ValueError
ReadLen(len, n) == IF n < -1 THEN -1 ELSE IF n = -1 THEN len ELSE Min(len, n)

\* the try branch: read vertex_count*62*4 bytes and reshape to (vertex_count, 62)
PrimaryShape(n, len) ==
    LET got == ReadLen(len, n * StdFloats * FloatSize)
    IN IF got = -1 THEN <<>> ELSE Reshape(got, n, StdFloats)

\* the except branch: infer floats_per_vertex from the remaining length
FallbackShape(n, len) ==
    LET floats_per_vertex == FloorDiv(len, n * FloatSize)
        got == ReadLen(len, n * floats_per_vertex * FloatSize)
    IN IF got = -1 THEN <<>> ELSE Reshape(got, n, floats_per_vertex)

DecodeShape(n, len) ==
    IF PrimaryShape(n, len) # <<>> THEN PrimaryShape(n, len) ELSE FallbackShape(n, len)

\* vertex_data[r, c], rows and columns counted from 0
Cell(r, c) == Val(r * shape[2] + c)

Clip(x, lo, hi) == IF x < lo THEN lo ELSE IF x > hi THEN hi ELSE x

\* (sh * 0.28209479177387814 + 0.5).clip(0, 1), in thousandths
SHToRGB(x) == IF x = NaN THEN NaN ELSE Clip((x * 282) \div 1000 + 500, 0, 1000)

\* 1 / (1 + exp(-x)), exact to the thousandth at -2, -1, 0, 0.3, 1 and 2
Sigmoid(x) ==
    IF x = NaN THEN NaN
    ELSE IF x <= -2000 THEN 119
    ELSE IF x <= -1000 THEN 269
    ELSE IF x <= 0 THEN 500
    ELSE IF x <= 300 THEN 574
    ELSE IF x <= 1000 THEN 731
    ELSE 881

\* exp(x), exact to the thousandth at -2, -1, 0, 1 and 2
Exp(x) ==
    IF x = NaN THEN NaN
    ELSE IF x <= -2000 THEN 135
    ELSE IF x <= -1000 THEN 368
    ELSE IF x <= 0 THEN 1000
    ELSE IF x <= 1000 THEN 2718
    ELSE 7389

DefaultColor == <<500, 500, 500>>
DefaultOpacity == 800
DefaultScale == <<10, 10, 10>>
IdentityRot == [q |-> <<1000, 0, 0, 0>>, s |-> 1000000]

\* variant: colour test off by one column
ColorOf_OffByOne(r) ==
    IF shape[2] > 9
    THEN <<SHToRGB(Cell(r, 6)), SHToRGB(Cell(r, 7)), SHToRGB(Cell(r, 8))>>
    ELSE DefaultColor

ColorOf(r) ==
    IF shape[2] > 8
    THEN <<SHToRGB(Cell(r, 6)), SHToRGB(Cell(r, 7)), SHToRGB(Cell(r, 8))>>
    ELSE DefaultColor

OpacityOf(r) ==
    IF shape[2] > 54 THEN Sigmoid(Cell(r, 54)) ELSE DefaultOpacity

ScaleOf(r) ==
    IF shape[2] > 57
    THEN <<Exp(Cell(r, 55)), Exp(Cell(r, 56)), Exp(Cell(r, 57))>>
    ELSE DefaultScale

\* rot / (norm + 1e-8): kept as the raw quaternion with its squared norm
RotOf(r) ==
    IF shape[2] > 61
    THEN LET q == <<Cell(r, 58), Cell(r, 59), Cell(r, 60), Cell(r, 61)>>
         IN IF \E k \in 1..4 : q[k] = NaN
            THEN [q |-> <<NaN, NaN, NaN, NaN>>, s |-> NaN]
            ELSE [q |-> q, s |-> q[1]*q[1] + q[2]*q[2] + q[3]*q[3] + q[4]*q[4]]
    ELSE IdentityRot

\* len(positions[i]): vertex_data[:, 0:3] has min(cols, 3) columns
PositionLen == Min(shape[2], 3)

\* bytes of row r that reach the file before struct.pack or int() raises;
\* 32 when the whole row is written
RowBytes(r) ==
    IF PositionLen # 3 THEN 0
    ELSE IF \E k \in 1..3 : colors[r + 1][k] = NaN THEN 24
    ELSE IF opacity[r + 1] = NaN THEN 24
    ELSE IF \E k \in 1..4 : rot[r + 1].q[k] = NaN THEN 28
    ELSE SplatBytes

RowError(r) ==
    IF PositionLen # 3 THEN "struct.error"
    ELSE IF RowBytes(r) < SplatBytes THEN "ValueError"
    ELSE "none"

----------------------------------------------------------------------------
(* convert_ply_to_splat *)

OutStates ==
    {[exists |-> FALSE, len |-> 0, old |-> TRUE],
     [exists |-> TRUE, len |-> SplatBytes, old |-> TRUE]}

RowsOf(f(_)) == [r \in 1..Max(shape[1], 0) |-> f(r - 1)]

\* open(ply_path, 'rb')
OpenInput ==
    /\ task = "convert" /\ pc = "start"
    /\ \E ok \in BOOLEAN :
        IF ok THEN pc' = "header" /\ err' = err
        ELSE pc' = "error" /\ err' = "FileNotFoundError"
    /\ UNCHANGED <<task, header, atEOF, eofReads, vertex_count, payload, shape,
                   colors, opacity, scale, rot, i, out, outBefore>>
    /\ UNCHANGED volVars

\* one iteration of the header loop whose readline() returns a line
ReadHeaderLine ==
    /\ task = "convert" /\ pc = "header"
    /\ ~atEOF
    /\ Len(header) < MaxHeaderLines
    /\ \E line \in Lines :
        /\ header' = Append(header, line)
        /\ pc' = IF HasEndHeader(line) THEN "parse" ELSE "header"
    /\ UNCHANGED <<task, atEOF, eofReads, vertex_count, payload, shape,
                   colors, opacity, scale, rot, i, out, outBefore, err>>
    /\ UNCHANGED volVars

\* one iteration of the header loop whose readline() returns b'' (end of file):
\* header += b'' changes nothing, 'end_header' is not in b'', the loop goes on
ReadAtEOF ==
    /\ task = "convert" /\ pc = "header"
    /\ eofReads < MaxEofReads
    /\ atEOF' = TRUE
    /\ eofReads' = eofReads + 1
    /\ pc' = IF HasEndHeader(<<>>) THEN "parse" ELSE "header"
    /\ UNCHANGED <<task, header, vertex_count, payload, shape,
                   colors, opacity, scale, rot, i, out, outBefore, err>>
    /\ UNCHANGED volVars

\* scan the header for the vertex count; zero means "not found"
ParseHeader ==
    /\ task = "convert" /\ pc = "parse"
    /\ LET res == ScanVertexCount(header)
       IN IF ~res.ok
          THEN pc' = "error" /\ err' = "ValueError: int" /\ vertex_count' = vertex_count
          ELSE IF res.val = 0
          THEN pc' = "error" /\ err' = "ValueError: vertex count" /\ vertex_count' = 0
          ELSE pc' = "decode" /\ err' = err /\ vertex_count' = res.val
    /\ UNCHANGED <<task, header, atEOF, eofReads, payload, shape,
                   colors, opacity, scale, rot, i, out, outBefore>>
    /\ UNCHANGED volVars

\* read the vertex data: 62 floats per row, or the inferred width
Decode ==
    /\ task = "convert" /\ pc = "decode"
    /\ \E len \in 0..MaxPayBytes, nan \in NanSites :
        /\ nan < len \div FloatSize
        /\ payload' = [len |-> len, nan |-> nan]
        /\ LET shp == DecodeShape(vertex_count, len)
           IN IF shp = <<>>
              THEN pc' = "error" /\ err' = "ValueError: numpy" /\ shape' = shape
              ELSE pc' = "extract" /\ err' = err /\ shape' = shp
    /\ UNCHANGED <<task, header, atEOF, eofReads, vertex_count,
                   colors, opacity, scale, rot, i, out, outBefore>>
    /\ UNCHANGED volVars

\* per-column extraction with defaults for narrow rows
Extract ==
    /\ task = "convert" /\ pc = "extract"
    /\ colors' = RowsOf(ColorOf)
    /\ opacity' = RowsOf(OpacityOf)
    /\ scale' = RowsOf(ScaleOf)
    /\ rot' = RowsOf(RotOf)
    /\ pc' = "open"
    /\ UNCHANGED <<task, header, atEOF, eofReads, vertex_count, payload, shape,
                   i, out, outBefore, err>>
    /\ UNCHANGED volVars

\* open(output_path, 'wb'): creates or truncates the output file
OpenOutput ==
    /\ task = "convert" /\ pc = "open"
    /\ \E ok \in BOOLEAN :
        IF ok
        THEN /\ out' = [exists |-> TRUE, len |-> 0, old |-> FALSE]
             /\ pc' = "write" /\ err' = err
        ELSE /\ out' = out
             /\ pc' = "error" /\ err' = "OSError"
    /\ i' = 0
    /\ UNCHANGED <<task, header, atEOF, eofReads, vertex_count, payload, shape,
                   colors, opacity, scale, rot, outBefore>>
    /\ UNCHANGED volVars

\* one iteration of the write loop: position, scale, colour, rotation
WriteRow ==
    /\ task = "convert" /\ pc = "write"
    /\ i < vertex_count
    /\ out' = [out EXCEPT !.len = @ + RowBytes(i)]
    /\ IF RowBytes(i) = SplatBytes
       THEN pc' = pc /\ err' = err /\ i' = i + 1
       ELSE pc' = "error" /\ err' = RowError(i) /\ i' = i
    /\ UNCHANGED <<task, header, atEOF, eofReads, vertex_count, payload, shape,
                   colors, opacity, scale, rot, outBefore>>
    /\ UNCHANGED volVars

\* the loop is exhausted: close the file and return the output path
Finish ==
    /\ task = "convert" /\ pc = "write"
    /\ i >= vertex_count
    /\ pc' = "done"
    /\ UNCHANGED <<task, header, atEOF, eofReads, vertex_count, payload, shape,
                   colors, opacity, scale, rot, i, out, outBefore, err>>
    /\ UNCHANGED volVars

ConvIdle ==
    /\ pc = "idle" /\ header = <<>> /\ atEOF = FALSE /\ eofReads = 0
    /\ vertex_count = 0 /\ payload = [len |-> 0, nan |-> -1] /\ shape = <<0, 0>>
    /\ colors = <<>> /\ opacity = <<>> /\ scale = <<>> /\ rot = <<>> /\ i = 0
    /\ out = [exists |-> FALSE, len |-> 0, old |-> TRUE] /\ outBefore = out
    /\ err = "none"

NoPly == [n |-> 0, field |-> "none", raw |-> <<>>]

VolLocalsCleared ==
    /\ plydata = NoPly /\ vopacity = <<>>
    /\ solid_points = <<>> /\ clean_points = <<>>

VolIdle ==
    /\ apc = "idle" /\ HAS_VOLUME_DEPS = FALSE
    /\ request = [file1 |-> "", file2 |-> "", threshold |-> -1]
    /\ threshold = 0 /\ call = 0 /\ ply_path = "" /\ opacity_threshold = 0
    /\ VolLocalsCleared
    /\ vols = <<>> /\ log = <<>>
    /\ growth = [num |-> 0, den |-> 1] /\ aerr = "none"

InitConvert ==
    /\ task = "convert"
    /\ pc = "start" /\ header = <<>> /\ atEOF = FALSE /\ eofReads = 0
    /\ vertex_count = 0 /\ payload = [len |-> 0, nan |-> -1] /\ shape = <<0, 0>>
    /\ colors = <<>> /\ opacity = <<>> /\ scale = <<>> /\ rot = <<>> /\ i = 0
    /\ out \in OutStates /\ outBefore = out
    /\ err = "none"
    /\ VolIdle

NextConvert ==
    \/ OpenInput \/ ReadHeaderLine \/ ReadAtEOF \/ ParseHeader
    \/ Decode \/ Extract \/ OpenOutput \/ WriteRow \/ Finish

SpecConvert == InitConvert /\ [][NextConvert]_vars

----------------------------------------------------------------------------
(* calculate_splat_volume and analyze_growth *)

RawOpacities == {-1000, 300, 1000}
RequestThresholds == {-1, 269, 300}
File1Names == {"", "day1.ply"}
File2Names == {"", "day2.ply"}

\* variant: the logistic applied only when all values are negative
OpacityArray_AllNegative(pd) ==
    IF pd.field = "opacity"
    THEN IF \A k \in 1..pd.n : pd.raw[k] < 0
         THEN [k \in 1..pd.n |-> Sigmoid(pd.raw[k])]
         ELSE pd.raw
    ELSE IF pd.field = "alpha"
    THEN pd.raw
    ELSE [k \in 1..pd.n |-> 1000]

\* the opacity array of a vertex element: the 'opacity' property passed through
\* the logistic when any value is negative, else 'alpha', else all ones
OpacityArray(pd) ==
    IF pd.field = "opacity"
    THEN IF \E k \in 1..pd.n : pd.raw[k] < 0
         THEN [k \in 1..pd.n |-> Sigmoid(pd.raw[k])]
         ELSE pd.raw
    ELSE IF pd.field = "alpha"
    THEN pd.raw
    ELSE [k \in 1..pd.n |-> 1000]

\* variant: non-strict comparison
Mask_NonStrict(op, t) == [k \in 1..Len(op) |-> op[k] >= t]

\* mask = opacity > opacity_threshold
Mask(op, t) == [k \in 1..Len(op) |-> op[k] > t]

\* xyz[mask]: the rows whose mask entry is true, in row order
RECURSIVE MaskSelect(_, _)
MaskSelect(mask, k) ==
    IF k > Len(mask) THEN <<>>
    ELSE IF mask[k] THEN <<k>> \o MaskSelect(mask, k + 1)
    ELSE MaskSelect(mask, k + 1)

DensityFilter(op, t) == MaskSelect(Mask(op, t), 1)

\* the entries of s at the positions in S, in order
RECURSIVE PickAt(_, _, _)
PickAt(s, S, k) ==
    IF k > Len(s) THEN <<>>
    ELSE IF k \in S THEN <<s[k]>> \o PickAt(s, S, k + 1)
    ELSE PickAt(s, S, k + 1)

\* what remove_statistical_outlier may return: some of the points, in order
OutlierResults(s) == {PickAt(s, S, 1) : S \in SUBSET (1..Len(s))}

\* variant: the second volume as the denominator
GrowthOf_Swapped(vol1, vol2) ==
    IF vol1 > 0
    THEN [num |-> (vol2 - vol1) * 100, den |-> vol2]
    ELSE [num |-> 0, den |-> 1]

\* variant: three points pass the size checks
TooFew_Three(pts) == Len(pts) < MinHullPoints - 1

\* len(points) < 4
TooFew(pts) == Len(pts) < MinHullPoints

\* growth = ((vol2 - vol1) / vol1) * 100 when vol1 > 0, else 0.0
GrowthOf(vol1, vol2) ==
    IF vol1 > 0
    THEN [num |-> (vol2 - vol1) * 100, den |-> vol1]
    ELSE [num |-> 0, den |-> 1]

\* a return statement of calculate_splat_volume: back in analyze_growth,
\* which starts the second call or goes on to the growth computation
Return(v, exit, hull) ==
    /\ vols' = Append(vols, v)
    /\ log' = Append(log, [file |-> ply_path, thr |-> opacity_threshold,
                           nsolid |-> IF exit = "read_error" THEN -1 ELSE Len(solid_points),
                           nclean |-> IF exit \in {"read_error", "few_solid"}
                                      THEN -1 ELSE Len(clean_points),
                           hull |-> hull, exit |-> exit, vol |-> v])
    /\ IF call = 1
       THEN /\ call' = 2 /\ apc' = "read"
            /\ ply_path' = request.file2 /\ opacity_threshold' = threshold
       ELSE /\ call' = call /\ apc' = "growth"
            /\ ply_path' = ply_path /\ opacity_threshold' = opacity_threshold

\* analyze_growth up to the first call of calculate_splat_volume
A_Start ==
    /\ task = "growth" /\ apc = "start"
    /\ threshold' = IF ~HAS_VOLUME_DEPS THEN threshold
                    ELSE IF request.threshold = -1 THEN DefaultThreshold
                    ELSE request.threshold
    /\ IF ~HAS_VOLUME_DEPS
       THEN /\ apc' = "error" /\ aerr' = "HTTP 500"
            /\ UNCHANGED <<call, ply_path, opacity_threshold>>
       ELSE IF request.file1 = "" \/ request.file2 = ""
       THEN /\ apc' = "error" /\ aerr' = "HTTP 400"
            /\ UNCHANGED <<call, ply_path, opacity_threshold>>
       ELSE \E exist \in BOOLEAN :
            IF ~exist
            THEN /\ apc' = "error" /\ aerr' = "HTTP 404"
                 /\ UNCHANGED <<call, ply_path, opacity_threshold>>
            ELSE /\ apc' = "read" /\ aerr' = aerr
                 /\ call' = 1 /\ ply_path' = request.file1
                 /\ opacity_threshold' = threshold'
    /\ UNCHANGED <<HAS_VOLUME_DEPS, request, plydata, vopacity, solid_points,
                   clean_points, vols, log, growth>>
    /\ UNCHANGED <<task, convVars>>

\* PlyData.read fails: print and return 0.0
V_ReadFail ==
    /\ task = "growth" /\ apc = "read"
    /\ Return(0, "read_error", FALSE)
    /\ UNCHANGED <<HAS_VOLUME_DEPS, request, threshold, plydata, vopacity,
                   solid_points, clean_points, growth, aerr>>
    /\ UNCHANGED <<task, convVars>>

\* PlyData.read succeeds and xyz is stacked from the vertex element
V_Read ==
    /\ task = "growth" /\ apc = "read"
    /\ \E n \in 0..MaxPoints, field \in {"opacity", "alpha", "none"} :
        \E raw \in (IF field = "none" THEN {<<>>} ELSE [1..n -> RawOpacities]) :
            plydata' = [n |-> n, field |-> field, raw |-> raw]
    /\ apc' = "filter"
    /\ UNCHANGED <<HAS_VOLUME_DEPS, request, threshold, call, ply_path,
                   opacity_threshold, vopacity, solid_points, clean_points,
                   vols, log, growth, aerr>>
    /\ UNCHANGED <<task, convVars>>

\* opacity selection and the density filter
V_Filter ==
    /\ task = "growth" /\ apc = "filter"
    /\ vopacity' = OpacityArray(plydata)
    /\ solid_points' = DensityFilter(vopacity', opacity_threshold)
    /\ apc' = "check_solid"
    /\ UNCHANGED <<HAS_VOLUME_DEPS, request, threshold, call, ply_path,
                   opacity_threshold, plydata, clean_points,
                   vols, log, growth, aerr>>
    /\ UNCHANGED <<task, convVars>>

\* if len(solid_points) < 4: return 0.0
V_CheckSolid ==
    /\ task = "growth" /\ apc = "check_solid"
    /\ IF TooFew(solid_points)
       THEN /\ Return(0, "few_solid", FALSE)
            /\ plydata' = NoPly /\ vopacity' = <<>>
            /\ solid_points' = <<>> /\ clean_points' = <<>>
       ELSE /\ apc' = "clean"
            /\ UNCHANGED <<call, ply_path, opacity_threshold, plydata, vopacity,
                           solid_points, clean_points, vols, log>>
    /\ UNCHANGED <<HAS_VOLUME_DEPS, request, threshold, growth, aerr>>
    /\ UNCHANGED <<task, convVars>>

\* statistical outlier removal; on any exception keep the solid points
V_Clean ==
    /\ task = "growth" /\ apc = "clean"
    /\ \E raised \in BOOLEAN :
        IF raised
        THEN clean_points' = solid_points
        ELSE \E kept \in OutlierResults(solid_points) : clean_points' = kept
    /\ apc' = "check_clean"
    /\ UNCHANGED <<HAS_VOLUME_DEPS, request, threshold, call, ply_path,
                   opacity_threshold, plydata, vopacity, solid_points,
                   vols, log, growth, aerr>>
    /\ UNCHANGED <<task, convVars>>

\* if len(clean_points) < 4: return 0.0
V_CheckClean ==
    /\ task = "growth" /\ apc = "check_clean"
    /\ IF TooFew(clean_points)
       THEN /\ Return(0, "few_clean", FALSE)
            /\ plydata' = NoPly /\ vopacity' = <<>>
            /\ solid_points' = <<>> /\ clean_points' = <<>>
       ELSE /\ apc' = "hull"
            /\ UNCHANGED <<call, ply_path, opacity_threshold, plydata, vopacity,
                           solid_points, clean_points, vols, log>>
    /\ UNCHANGED <<HAS_VOLUME_DEPS, request, threshold, growth, aerr>>
    /\ UNCHANGED <<task, convVars>>

\* ConvexHull(clean_points).volume, or 0.0 when the construction raises
V_Hull ==
    /\ task = "growth" /\ apc = "hull"
    /\ \E raised \in BOOLEAN :
        IF raised
        THEN Return(0, "hull_error", TRUE)
        ELSE \E v \in 0..MaxVolume : Return(v, "hull", TRUE)
    /\ plydata' = NoPly /\ vopacity' = <<>>
    /\ solid_points' = <<>> /\ clean_points' = <<>>
    /\ UNCHANGED <<HAS_VOLUME_DEPS, request, threshold, growth, aerr>>
    /\ UNCHANGED <<task, convVars>>

\* the growth percentage and the response
A_Growth ==
    /\ task = "growth" /\ apc = "growth"
    /\ growth' = GrowthOf(vols[1], vols[2])
    /\ apc' = "done"
    /\ UNCHANGED <<HAS_VOLUME_DEPS, request, threshold, call, ply_path,
                   opacity_threshold, plydata, vopacity, solid_points, clean_points,
                   vols, log, aerr>>
    /\ UNCHANGED <<task, convVars>>

InitGrowth ==
    /\ task = "growth"
    /\ ConvIdle
    /\ apc = "start"
    /\ HAS_VOLUME_DEPS \in BOOLEAN
    /\ request \in [file1 : File1Names, file2 : File2Names, threshold : RequestThresholds]
    /\ threshold = 0 /\ call = 0 /\ ply_path = "" /\ opacity_threshold = 0
    /\ VolLocalsCleared
    /\ vols = <<>> /\ log = <<>>
    /\ growth = [num |-> 0, den |-> 1] /\ aerr = "none"

NextGrowth ==
    \/ A_Start \/ V_ReadFail \/ V_Read \/ V_Filter \/ V_CheckSolid
    \/ V_Clean \/ V_CheckClean \/ V_Hull \/ A_Growth

SpecGrowth == InitGrowth /\ [][NextGrowth]_vars

----------------------------------------------------------------------------
(* Properties of convert_ply_to_splat *)

\* the payload has been decoded into a (rows, cols) array
Decoded == shape[1] > 0

\* the per-column extraction has run
Extracted == Decoded /\ Len(colors) = shape[1]

HasVertexLine(h) == \E k \in 1..Len(h) : StartsWithElementVertex(h[k])

FirstVertexLine(h) ==
    h[CHOOSE k \in 1..Len(h) :
        /\ StartsWithElementVertex(h[k])
        /\ \A j \in 1..(k - 1) : ~StartsWithElementVertex(h[j])]

LastToken(line) == line[Len(line)]

\* the header declares no usable record count: no declaration line, or a last
\* token that is not an integer greater than zero
BadCount(h) ==
    \/ ~HasVertexLine(h)
    \/ ~ParseInt(LastToken(FirstVertexLine(h))).ok
    \/ ParseInt(LastToken(FirstVertexLine(h))).val <= 0

\* C1: for every record count N > 0 and payload length L the row width is 62
\* exactly when L = N*62*4, and floor(L / (N*4)) in every other case.
C1_RowWidthRule ==
    Decoded =>
        /\ (shape[2] = 62) <=> (payload.len = vertex_count * 62 * 4)
        /\ payload.len # vertex_count * 62 * 4
             => shape[2] = payload.len \div (vertex_count * 4)

\* C2: a header without a record-count line, or with a count that is zero or
\* otherwise not > 0, makes the call fail before the output file is opened;
\* otherwise the count used is the integer value of the last token of the first
\* record-count line.
C2_VertexCount ==
    /\ (task = "convert" /\ pc \notin {"start", "header", "parse"} /\ BadCount(header))
         => /\ pc \in {"decode", "error"}
            /\ out = outBefore
            /\ pc = "decode" =>
                 \A len \in 0..MaxPayBytes : DecodeShape(vertex_count, len) = <<>>
    /\ (task = "convert" /\ pc \in {"decode", "extract", "open", "write", "done"})
         => /\ HasVertexLine(header)
            /\ vertex_count = ParseInt(LastToken(FirstVertexLine(header))).val
    /\ (task = "convert" /\ pc \in {"extract", "open", "write", "done"})
         => vertex_count > 0

\* a call that got past the header scan with a negative count and failed in the
\* decoder with the output untouched
C2_Witness ==
    /\ pc = "error" /\ err = "ValueError: numpy"
    /\ vertex_count < 0
    /\ Len(header) = 3 /\ StartsWithElementVertex(header[1])
    /\ StartsWithElementVertex(header[2]) /\ header[1] # header[2]
    /\ out = outBefore

\* C3: the call either returns with an output file of exactly 32*recordCount
\* bytes, or raises and leaves the output path exactly as it was.
C3_AllOrNothing ==
    /\ pc = "done" => out.exists /\ ~out.old /\ out.len = 32 * vertex_count
    /\ pc = "error" => out = outBefore

\* C4: an inferred row width below 3, or a payload shorter than recordCount rows
\* of the chosen width, is rejected at decode time: no array of such a shape is
\* ever handed to the extraction and nothing is written.
C4_RejectAtDecode ==
    Decoded =>
        /\ shape[2] >= 3
        /\ payload.len >= shape[1] * shape[2] * 4

\* C5: for every row width w >= 3, colour comes from columns 6..8 iff w >= 9,
\* opacity from column 54 iff w >= 55, scale from columns 55..57 iff w >= 58,
\* rotation from columns 58..61 iff w >= 62, each with its fixed default
\* otherwise; no decoded width exceeds 62.
C5_ColumnFallback ==
    (Extracted /\ shape[2] >= 3) =>
        /\ shape[2] <= 62
        /\ \A r \in 1..shape[1] :
            /\ colors[r] = IF shape[2] >= 9
                           THEN <<SHToRGB(Val((r - 1) * shape[2] + 6)),
                                  SHToRGB(Val((r - 1) * shape[2] + 7)),
                                  SHToRGB(Val((r - 1) * shape[2] + 8))>>
                           ELSE <<500, 500, 500>>
            /\ opacity[r] = IF shape[2] >= 55
                            THEN Sigmoid(Val((r - 1) * shape[2] + 54))
                            ELSE 800
            /\ scale[r] = IF shape[2] >= 58
                          THEN <<Exp(Val((r - 1) * shape[2] + 55)),
                                 Exp(Val((r - 1) * shape[2] + 56)),
                                 Exp(Val((r - 1) * shape[2] + 57))>>
                          ELSE <<10, 10, 10>>
            /\ IF shape[2] >= 62
               THEN LET q == [c \in 1..4 |-> Val((r - 1) * shape[2] + 57 + c)]
                    IN IF \E c \in 1..4 : q[c] = NaN
                       THEN \A c \in 1..4 : rot[r].q[c] = NaN
                       ELSE /\ rot[r].q = q
                            /\ rot[r].s = q[1]*q[1] + q[2]*q[2] + q[3]*q[3] + q[4]*q[4]
               ELSE rot[r] = [q |-> <<1000, 0, 0, 0>>, s |-> 1000000]

\* a 9-column record after extraction: real colour, the three other defaults
C5_Witness ==
    /\ Extracted /\ shape[2] = 9
    /\ colors[1] # <<500, 500, 500>>
    /\ opacity[1] = 800 /\ scale[1] = <<10, 10, 10>>
    /\ rot[1] = [q |-> <<1000, 0, 0, 0>>, s |-> 1000000]

\* C10: when the file ends before a line with the end-of-header marker is read,
\* the header loop is left (with an error) instead of reading again.
C10_HeaderLoopStopsAtEOF ==
    (task = "convert" /\ atEOF) => pc # "header"

----------------------------------------------------------------------------
(* Properties of calculate_splat_volume and analyze_growth *)

\* the density filter of the running call has just produced solid_points
Filtered == task = "growth" /\ apc = "check_solid"

Kept == {solid_points[k] : k \in 1..Len(solid_points)}

AnyNegative(raw) == \E k \in 1..Len(raw) : raw[k] < 0

CmpThresholds == {269, 300, 500, 574, 731, 1000}

\* C6 as stated: the compared opacity of every record is logistic(raw opacity),
\* so a record passes the filter iff logistic(its raw opacity) > threshold.
C6_AlwaysLogistic ==
    (Filtered /\ plydata.field = "opacity") =>
        \A k \in 1..plydata.n :
            /\ vopacity[k] = Sigmoid(plydata.raw[k])
            /\ (k \in Kept) <=> (Sigmoid(plydata.raw[k]) > opacity_threshold)

\* C6 amended: with an 'opacity' property the compared opacity is
\* logistic(raw) for every record when some record of the file has a negative
\* raw opacity, and the raw value itself when none has; without an 'opacity'
\* property it is the 'alpha' value, or 1.0 when that is absent too.  A record
\* passes iff that value exceeds the threshold.
C6_LogisticWhenAnyNegative ==
    Filtered =>
        \A k \in 1..plydata.n :
            LET compared ==
                    IF plydata.field = "opacity"
                    THEN (IF AnyNegative(plydata.raw)
                          THEN Sigmoid(plydata.raw[k]) ELSE plydata.raw[k])
                    ELSE IF plydata.field = "alpha" THEN plydata.raw[k]
                    ELSE 1000
            IN /\ vopacity[k] = compared
               /\ (k \in Kept) <=> (compared > opacity_threshold)

\* a file with an 'opacity' property, mixed signs: the logistic was applied and
\* a record with a non-negative raw value passes only because of it
C6_Witness ==
    /\ Filtered /\ plydata.field = "opacity"
    /\ AnyNegative(plydata.raw)
    /\ \E k \in 1..plydata.n :
        /\ plydata.raw[k] >= 0
        /\ plydata.raw[k] <= opacity_threshold
        /\ k \in Kept

C8_DegenerateIsZero ==
    /\ \A k \in 1..Len(log) :
        /\ ((log[k].nsolid # -1 /\ log[k].nsolid < 4)
            \/ (log[k].nclean # -1 /\ log[k].nclean < 4))
             => log[k].vol = 0 /\ ~log[k].hull
        /\ log[k].vol >= 0
        /\ vols[k] = log[k].vol
    /\ (task = "growth" /\ apc = "hull")
         => Len(solid_points) >= 4 /\ Len(clean_points) >= 4

\* a call in which the filter left enough points but outlier removal did not
C8_Witness ==
    \E k \in 1..Len(log) :
        /\ log[k].exit = "few_clean"
        /\ log[k].nsolid >= 4 /\ log[k].nclean = 3
        /\ log[k].vol = 0

\* C9: growth_percentage is 0.0 when volume1 is 0 and
\* (volume2 - volume1) / volume1 * 100 otherwise; volume1 is the volume of
\* file1 and both calls get the same threshold.
C9_Growth ==
    (task = "growth" /\ apc = "done") =>
        /\ growth.den # 0
        /\ vols[1] = 0 => growth.num = 0
        /\ vols[1] # 0 => growth.num * vols[1] = (vols[2] - vols[1]) * 100 * growth.den
        /\ log[1].file = request.file1 /\ log[2].file = request.file2
        /\ vols[1] = log[1].vol /\ vols[2] = log[2].vol
        /\ log[1].thr = log[2].thr
        /\ log[1].thr = IF request.threshold = -1 THEN 500 ELSE request.threshold

\* a finished comparison whose first volume is positive and differs from the second
C9_Witness ==
    /\ task = "growth" /\ apc = "done"
    /\ vols[1] > 0 /\ vols[2] > vols[1]
    /\ growth.num > 0

====
